---- MODULE Spec2Model ----
(***************************************************************************)
(* TradeWiz: the sorting / benchmarking engine of                          *)
(* src/app/components/TradeWiz.tsx.                                        *)
(*                                                                         *)
(* Representation.                                                         *)
(*   - A symbol is the sequence of its UTF-16 code units ("AMD" is         *)
(*     <<65, 77, 68>>), so that split('') / charCodeAt(0) and the string   *)
(*     comparison of `<=` are computed, not assumed.                       *)
(*   - A price is held in cents: the code stores                           *)
(*     Math.round(price * 100) / 100, the double nearest to cents / 100,   *)
(*     and two such doubles compare as their cents do.                     *)
(*   - A radix sort key is a non-negative integer written as the sequence  *)
(*     of its decimal digits, least significant first, without leading     *)
(*     zeros (0 is <<0>>).  The keys of 4- and 5-letter symbols exceed     *)
(*     2^31, the digits keep them exact; every key of the model is below   *)
(*     2^53, where the doubles of the code are exact integers as well.     *)
(*   - Durations are held in quarters of a clock unit, so that the         *)
(*     factor 2.5 and the mean of two durations stay integers.             *)
(***************************************************************************)
EXTENDS Integers, Sequences, FiniteSets, TLC

\* ------------------------------------------------------------------ bounds

\* Longest batch handed to a sorter by the sorter harness (SortSpec).
MaxLen == 3

\* Timer ticks, sort passes and configuration commands (rate, field,
\* algorithm) in one run of the scheduler (Spec).
MaxTicks == 5

MaxPasses == 2

MaxConfigChanges == 1

\* Timer ticks in one run of the long scheduler run (LongSpec), which needs
\* more sort passes than the history has room for.
MaxLongTicks == 23

\* ------------------------------------------------------- types and constants

SortKeys == {"price", "symbol", "timestamp"}

SortMethods == {"radix", "merge"}

stockSymbols ==
  << <<65, 65, 80, 76>>,      \* AAPL
     <<84, 83, 76, 65>>,      \* TSLA
     <<65, 77, 90, 78>>,      \* AMZN
     <<71, 79, 79, 71, 76>>,  \* GOOGL
     <<77, 83, 70, 84>>,      \* MSFT
     <<78, 86, 68, 65>>,      \* NVDA
     <<77, 69, 84, 65>>,      \* META
     <<78, 70, 76, 88>>,      \* NFLX
     <<65, 77, 68>>,          \* AMD
     <<73, 78, 84, 67>> >>    \* INTC

\* --------------------------------------------------------- decimal integers

RECURSIVE NatToDigits(_)
\* The decimal digits of n, least significant first: what n.toString() prints,
\* reversed.
NatToDigits(n) ==
  IF n < 10 THEN <<n>> ELSE <<n % 10>> \o NatToDigits(n \div 10)

RECURSIVE CarryDigits(_)
\* The digits of a carry left over after the last digit of a product.
CarryDigits(c) ==
  IF c = 0 THEN <<>> ELSE <<c % 10>> \o CarryDigits(c \div 10)

RECURSIVE MulAddFrom(_, _, _, _)
MulAddFrom(ds, i, m, carry) ==
  IF i > Len(ds) THEN CarryDigits(carry)
  ELSE LET v == ds[i] * m + carry
       IN  <<v % 10>> \o MulAddFrom(ds, i + 1, m, v \div 10)

\* The digits of value(ds) * m + a.
MulAdd(ds, m, a) ==
  LET r == MulAddFrom(ds, 1, m, a)
  IN  IF r = <<>> THEN <<0>> ELSE r

RECURSIVE DigitsLessFrom(_, _, _)
\* Equal lengths: compare from the most significant digit down.
DigitsLessFrom(a, b, i) ==
  IF i = 0 THEN FALSE
  ELSE IF a[i] # b[i] THEN a[i] < b[i]
  ELSE DigitsLessFrom(a, b, i - 1)

\* a < b as numbers.
DigitsLess(a, b) ==
  IF Len(a) # Len(b) THEN Len(a) < Len(b) ELSE DigitsLessFrom(a, b, Len(a))

\* ------------------------------------------------------------ key encoder

\* Math.floor(item.price * 100) for the stored price cents / 100.  The double
\* product falls just below the integer for some prices: 64.07 * 100 evaluates
\* to 6406.999999999999, so the key of 64.07 is 6406, the key of 64.06.  The
\* prices the model draws (Draws) are listed; for the others of them the
\* product is the exact integer.
FloorTimes100(cents) ==
  IF cents = 6407 THEN 6406 ELSE cents

RECURSIVE SymbolFoldSum(_, _, _)
\* Mutant of SymbolFold: the fold without its shift, acc + code.
SymbolFoldSum(symbol, i, acc) ==
  IF i > Len(symbol) THEN acc
  ELSE SymbolFoldSum(symbol, i + 1, MulAdd(acc, 1, symbol[i]))

RECURSIVE SymbolFold(_, _, _)
\* item.symbol.split('').reduce((acc, char) => acc * 256 + char.charCodeAt(0), 0)
SymbolFold(symbol, i, acc) ==
  IF i > Len(symbol) THEN acc
  ELSE SymbolFold(symbol, i + 1, MulAdd(acc, 256, symbol[i]))

\* The key preprocessForRadix computes for one item.
EncodeKey(item, sortKey) ==
  IF sortKey = "price" THEN NatToDigits(FloorTimes100(item.price))
  ELSE IF sortKey = "symbol" THEN SymbolFold(item.symbol, 1, <<0>>)
  ELSE NatToDigits(item.timestamp)

\* { ...item, sortKey: key }
WithSortKey(item, key) ==
  [id |-> item.id, symbol |-> item.symbol, price |-> item.price,
   timestamp |-> item.timestamp, sortKey |-> key]

\* data.map(item => ({ ...item, sortKey: key })); the concatenation with the
\* empty sequence only makes the mapped array a sequence value, computed once.
preprocessForRadix(data, sortKey) ==
  [i \in 1..Len(data) |-> WithSortKey(data[i], EncodeKey(data[i], sortKey))] \o <<>>

\* ------------------------------------------------------------- radix sort

RECURSIVE MaxKeyIn(_, _, _)
\* Math.max over preprocessed[lo..hi].sortKey, the range split in halves (the
\* maximum does not depend on the order the keys are compared in).
MaxKeyIn(preprocessed, lo, hi) ==
  IF lo = hi THEN preprocessed[lo].sortKey
  ELSE LET mid == (lo + hi) \div 2
           a == MaxKeyIn(preprocessed, lo, mid)
           b == MaxKeyIn(preprocessed, mid + 1, hi)
       IN  IF DigitsLess(a, b) THEN b ELSE a

\* Math.max(...preprocessed.map(item => item.sortKey ?? 0)), for the two or
\* more items radixSort has at this point.
MaxKey(preprocessed) == MaxKeyIn(preprocessed, 1, Len(preprocessed))

\* maxVal.toString().length
ToStringLength(key) == Len(key)

\* Math.floor((item.sortKey ?? 0) / Math.pow(10, digit)) % 10
DigitValue(key, digit) ==
  IF digit + 1 <= Len(key) THEN key[digit + 1] ELSE 0

\* Mutant of Bucket: unshift in place of push, so a bucket holds its items in
\* reverse order of arrival.
BucketUnshift(sortedArray, digit, b) ==
  LET kept == SelectSeq(sortedArray, LAMBDA item : DigitValue(item.sortKey, digit) = b)
  IN  [i \in 1..Len(kept) |-> kept[Len(kept) + 1 - i]]

\* sortedArray.forEach(item => buckets[digitValue].push(item)), for one bucket.
Bucket(sortedArray, digit, b) ==
  SelectSeq(sortedArray, LAMBDA item : DigitValue(item.sortKey, digit) = b)

RECURSIVE FlatFrom(_, _, _)
\* buckets.flat(): bucket 0, then 1, ... then 9.
FlatFrom(sortedArray, digit, b) ==
  IF b > 9 THEN <<>>
  ELSE Bucket(sortedArray, digit, b) \o FlatFrom(sortedArray, digit, b + 1)

\* One pass of the loop body: distribute on `digit`, collect.
RadixPass(sortedArray, digit) == FlatFrom(sortedArray, digit, 0)

RECURSIVE RadixLoop(_, _, _)
\* for (let digit = 0; digit < maxDigits; digit++) { ... }
\* (The test on Len(next) is always true: it makes the pass evaluated once,
\* before the next one starts.)
RadixLoop(sortedArray, digit, maxDigits) ==
  IF digit < maxDigits
  THEN LET next == RadixPass(sortedArray, digit)
       IN  IF Len(next) >= 0
           THEN RadixLoop(next, digit + 1, maxDigits)
           ELSE next
  ELSE sortedArray

\* radixSort(arr, sortKey).sorted
RadixSorted(arr, sortKey) ==
  IF Len(arr) <= 1 THEN arr
  ELSE LET preprocessed == preprocessForRadix(arr, sortKey)
           maxVal == MaxKey(preprocessed)
       IN  RadixLoop(preprocessed, 0, ToStringLength(maxVal))

\* What radixSort hands to setPreprocessedData.
RadixPreprocessedSample(arr, sortKey) ==
  IF Len(arr) <= 1 THEN <<>>
  ELSE LET preprocessed == preprocessForRadix(arr, sortKey)
       IN  SubSeq(preprocessed, 1, IF Len(preprocessed) < 20 THEN Len(preprocessed) ELSE 20)

\* ------------------------------------------------------------- merge sort

RECURSIVE StrLeqFrom(_, _, _)
\* a <= b for two strings: the first differing code unit decides, a proper
\* prefix is smaller.
StrLeqFrom(a, b, i) ==
  IF i > Len(a) THEN TRUE
  ELSE IF i > Len(b) THEN FALSE
  ELSE IF a[i] # b[i] THEN a[i] < b[i]
  ELSE StrLeqFrom(a, b, i + 1)

StrLeq(a, b) == StrLeqFrom(a, b, 1)

\* Mutant of FieldLeq: leftVal < rightVal, which takes the right element on a
\* tie.
FieldLess(l, r, sortKey) ==
  IF sortKey = "price" THEN l.price < r.price
  ELSE IF sortKey = "symbol" THEN ~StrLeq(r.symbol, l.symbol)
  ELSE l.timestamp < r.timestamp

\* leftVal <= rightVal, for the field sortKey selects.
FieldLeq(l, r, sortKey) ==
  IF sortKey = "price" THEN l.price <= r.price
  ELSE IF sortKey = "symbol" THEN StrLeq(l.symbol, r.symbol)
  ELSE l.timestamp <= r.timestamp

\* Mutant of MergeStep: the two branches of the comparison exchanged.
MergeStepFlipped(left, right, st, sortKey) ==
  IF st.i <= Len(left) /\ st.j <= Len(right)
  THEN IF FieldLeq(left[st.i], right[st.j], sortKey)
       THEN [i |-> st.i, j |-> st.j + 1, result |-> Append(st.result, right[st.j])]
       ELSE [i |-> st.i + 1, j |-> st.j, result |-> Append(st.result, left[st.i])]
  ELSE st

\* One iteration of merge's while loop on its state (i, j, result); a state
\* whose loop condition is false is left as it is.
MergeStep(left, right, st, sortKey) ==
  IF st.i <= Len(left) /\ st.j <= Len(right)
  THEN IF FieldLeq(left[st.i], right[st.j], sortKey)
       THEN [i |-> st.i + 1, j |-> st.j, result |-> Append(st.result, left[st.i])]
       ELSE [i |-> st.i, j |-> st.j + 1, result |-> Append(st.result, right[st.j])]
  ELSE st

RECURSIVE MergeSteps(_, _, _, _, _)
\* n iterations of the loop, split in halves so that the evaluation nests
\* log(n) deep instead of n.  The test on half.i is always true: it makes the
\* first half evaluated before the second half starts.
MergeSteps(left, right, st, n, sortKey) ==
  IF n = 0 THEN st
  ELSE IF n = 1 THEN MergeStep(left, right, st, sortKey)
  ELSE LET half == MergeSteps(left, right, st, n \div 2, sortKey)
       IN  IF half.i >= 1
           THEN MergeSteps(left, right, half, n - (n \div 2), sortKey)
           ELSE half

\* Mutant of merge: the rest of the right half is not appended.
mergeDropsRightTail(left, right, sortKey) ==
  LET st == MergeSteps(left, right, [i |-> 1, j |-> 1, result |-> <<>>],
                       Len(left) + Len(right), sortKey)
  IN  st.result \o SubSeq(left, st.i, Len(left))

\* merge(left, right): the while loop (it ends within Len(left) + Len(right)
\* iterations), then the two concat calls.
merge(left, right, sortKey) ==
  LET st == MergeSteps(left, right, [i |-> 1, j |-> 1, result |-> <<>>],
                       Len(left) + Len(right), sortKey)
  IN  st.result \o SubSeq(left, st.i, Len(left)) \o SubSeq(right, st.j, Len(right))

RECURSIVE sort(_, _)
sort(array, sortKey) ==
  IF Len(array) <= 1 THEN array
  ELSE LET mid == Len(array) \div 2
       IN  merge(sort(SubSeq(array, 1, mid), sortKey),
                 sort(SubSeq(array, mid + 1, Len(array)), sortKey),
                 sortKey)

\* mergeSort(arr, sortKey).sorted
MergeSorted(arr, sortKey) == sort(arr, sortKey)

\* ------------------------------------------------------------- generator

\* What the random source and the clock of generateTransaction may yield in
\* the model: the index of the symbol, the price in cents (the rounded
\* Math.random() * 1000 + 50) and the timestamp
\* Date.now() * 1000000 + Math.floor(Math.random() * 1000000), for Date.now()
\* in {0, 1}.  Every symbol of the list occurs; prices and timestamps repeat,
\* and 64.06 / 64.07 are the two prices whose keys coincide.
Draws ==
  << [sym |-> 1,  cents |-> 10000, ts |-> 1000000],
     [sym |-> 2,  cents |-> 5000,  ts |-> 999999],
     [sym |-> 3,  cents |-> 10000, ts |-> 0],
     [sym |-> 4,  cents |-> 6407,  ts |-> 1000000],
     [sym |-> 5,  cents |-> 6406,  ts |-> 500],
     [sym |-> 6,  cents |-> 104999, ts |-> 1999999],
     [sym |-> 7,  cents |-> 5000,  ts |-> 999999],
     [sym |-> 8,  cents |-> 99999, ts |-> 42],
     [sym |-> 9,  cents |-> 6407,  ts |-> 1000042],
     [sym |-> 10, cents |-> 12345, ts |-> 7] >>

\* generateTransaction(), for one outcome of the random source and the id it
\* draws (ids are taken to be unique).
generateTransaction(draw, id) ==
  [id |-> id, symbol |-> stockSymbols[draw.sym], price |-> draw.cents,
   timestamp |-> draw.ts]

\* The measured durations the clock may yield for one sorter run
\* (performance.now() at the end minus performance.now() at the start), in
\* quarter units.
Elapsed == {4, 8}

\* radixSort(arr, sortKey).time
RadixTime(arr, elapsed) == IF Len(arr) <= 1 THEN 0 ELSE elapsed

\* mergeSort(arr, sortKey).time: demonstrationTime = actualTime * 2.5
MergeTime(arr, elapsed) == (elapsed * 5) \div 2

\* ------------------------------------------------------------------ state

VARIABLES
  \* the component's state (useState / useRef)
  isRunning, sortMethod, sortBy, transactionRate,
  transactionBuffer, currentStats, performanceData,
  sortedTransactions, preprocessedData,
  intervalRef, liveIntervals,
  \* bookkeeping of the run: ids drawn, ticks and sort passes so far, the
  \* input of the last pass, configuration commands issued
  nextId, ticks, passes, lastPassInput, configChanges,
  \* the sorter harness: one call of a sorter and a second call on its output;
  \* hElapsed is what the clock measured around the call (endTime - startTime)
  hPhase, hArr, hKey, hAlg, hOut, hTime, hAgain, hElapsed

schedVars ==
  <<isRunning, sortMethod, sortBy, transactionRate, transactionBuffer,
    currentStats, performanceData, sortedTransactions, preprocessedData,
    intervalRef, liveIntervals, nextId, ticks, passes, lastPassInput,
    configChanges>>

harnessVars == <<hPhase, hArr, hKey, hAlg, hOut, hTime, hAgain, hElapsed>>

vars == <<schedVars, harnessVars>>

ZeroStats == [totalTransactions |-> 0, avgSortTime |-> 0, radixTime |-> 0, mergeTime |-> 0]

\* The component after its first render and effect run.
SchedInit ==
  /\ isRunning = FALSE
  /\ sortMethod = "radix"
  /\ sortBy = "price"
  /\ transactionRate = 1000
  /\ transactionBuffer = <<>>
  /\ currentStats = ZeroStats
  /\ performanceData = <<>>
  /\ sortedTransactions = <<>>
  /\ preprocessedData = <<>>
  /\ intervalRef = "null"
  /\ liveIntervals = 0
  /\ nextId = 1
  /\ ticks = 0
  /\ passes = 0
  /\ lastPassInput = <<>>
  /\ configChanges = 0

HarnessIdle ==
  /\ hPhase = "idle"
  /\ hArr = <<>>
  /\ hKey = "price"
  /\ hAlg = "none"
  /\ hOut = <<>>
  /\ hTime = 0
  /\ hAgain = <<>>
  /\ hElapsed = 0

\* ---------------------------------------------------------- sorter harness

\* The batches of at most MaxLen generated transactions, ids 1, 2, ... in
\* input order.
Batches ==
  UNION { { [i \in 1..n |-> generateTransaction(Draws[d[i]], i)] :
            d \in [1..n -> 1..Len(Draws)] } : n \in 0..MaxLen }

HarnessInit ==
  /\ hPhase = "input"
  /\ hArr \in Batches
  /\ hKey \in SortKeys
  /\ hAlg = "none"
  /\ hOut = <<>>
  /\ hTime = 0
  /\ hAgain = <<>>
  /\ hElapsed = 0

\* radixSort(hArr, hKey)
CallRadix ==
  /\ hPhase = "input"
  /\ \E elapsed \in Elapsed :
       /\ hOut' = RadixSorted(hArr, hKey)
       /\ hTime' = RadixTime(hArr, elapsed)
       /\ hElapsed' = elapsed
  /\ hAlg' = "radix"
  /\ hPhase' = "sorted"
  /\ UNCHANGED <<hArr, hKey, hAgain>>
  /\ UNCHANGED schedVars

\* mergeSort(hArr, hKey)
CallMerge ==
  /\ hPhase = "input"
  /\ \E elapsed \in Elapsed :
       /\ hOut' = MergeSorted(hArr, hKey)
       /\ hTime' = MergeTime(hArr, elapsed)
       /\ hElapsed' = elapsed
  /\ hAlg' = "merge"
  /\ hPhase' = "sorted"
  /\ UNCHANGED <<hArr, hKey, hAgain>>
  /\ UNCHANGED schedVars

\* The same sorter, with the same field, on its own output.
SortAgain ==
  /\ hPhase = "sorted"
  /\ hAgain' = IF hAlg = "radix" THEN RadixSorted(hOut, hKey)
               ELSE MergeSorted(hOut, hKey)
  /\ hPhase' = "resorted"
  /\ UNCHANGED <<hArr, hKey, hAlg, hOut, hTime, hElapsed>>
  /\ UNCHANGED schedVars

SortNext == CallRadix \/ CallMerge \/ SortAgain

SortInit == SchedInit /\ HarnessInit

SortSpec == SortInit /\ [][SortNext]_vars

\* --------------------------------------------------------------- scheduler

\* if (transactionBuffer.current.length >= 500)
FlushThreshold == 500

\* The values the rate slider is moved to in Spec (min 100, max 10000, step
\* 100; 1000 is the initial rate): five ticks, or two, fill the buffer.
Rates == {1000, 2500}

\* The outcome of the random source for the transaction that gets id `id`: a
\* fixed stream over Draws.
DrawAt(id) == Draws[((id * 7) % Len(Draws)) + 1]

\* Array.from({ length: batchSize }, generateTransaction)
NewTransactions(batchSize, firstId) ==
  [k \in 1..batchSize |-> generateTransaction(DrawAt(firstId + k - 1), firstId + k - 1)] \o <<>>

\* seq.slice(-n)
SliceLast(seq, n) ==
  IF Len(seq) <= n THEN seq ELSE SubSeq(seq, Len(seq) - n + 1, Len(seq))

\* Mutant of LiveAfterClear: clearInterval without effect, the interval the
\* ref holds stays registered.
LiveNotCleared(ref, live) == live

\* The interval after the effect of lines 175-228 has run again: the cleanup
\* of the previous run clears intervalRef.current, then the body registers a
\* new interval when running (and clears intervalRef.current again when not).
\* A cleared or never set intervalRef leaves the registered intervals alone.
RefAfterClear(ref) == IF ref = "live" THEN "cleared" ELSE ref

LiveAfterClear(ref, live) == IF ref = "live" THEN live - 1 ELSE live

EffectRef(ref, running) == IF running THEN "live" ELSE RefAfterClear(ref)

\* Mutant of EffectLive: an effect run that finds the scheduler stopped clears
\* nothing (neither the cleanup nor the else branch calls clearInterval).
EffectLiveKeptOnStop(ref, live, running) ==
  IF running THEN LiveAfterClear(ref, live) + 1 ELSE live

EffectLive(ref, live, running) ==
  IF running THEN LiveAfterClear(ref, live) + 1 ELSE LiveAfterClear(ref, live)

\* The render that follows a handler, and the effect when one of its
\* dependencies changed.  `ref` and `live` are the interval state the handler
\* left.
RunEffect(ref, live, running, depsChanged) ==
  /\ intervalRef' = IF depsChanged THEN EffectRef(ref, running) ELSE ref
  /\ liveIntervals' = IF depsChanged THEN EffectLive(ref, live, running) ELSE live

\* toggleSimulation: setIsRunning(!isRunning)
toggleSimulation ==
  /\ isRunning' = ~isRunning
  /\ RunEffect(intervalRef, liveIntervals, ~isRunning, TRUE)
  /\ UNCHANGED <<sortMethod, sortBy, transactionRate, transactionBuffer,
                 currentStats, performanceData, sortedTransactions,
                 preprocessedData, nextId, ticks, passes, lastPassInput,
                 configChanges>>
  /\ UNCHANGED harnessVars

\* Mutant of resetData: transactionBuffer.current = [] is left out.
resetDataKeepsBuffer ==
  /\ isRunning' = FALSE
  /\ sortedTransactions' = <<>>
  /\ performanceData' = <<>>
  /\ currentStats' = ZeroStats
  /\ RunEffect(RefAfterClear(intervalRef),
               LiveAfterClear(intervalRef, liveIntervals),
               FALSE,
               isRunning \/ currentStats.radixTime # 0 \/ currentStats.mergeTime # 0)
  /\ UNCHANGED <<sortMethod, sortBy, transactionRate, preprocessedData,
                 transactionBuffer, nextId, ticks, passes, lastPassInput,
                 configChanges>>
  /\ UNCHANGED harnessVars

\* resetData
resetData ==
  /\ isRunning' = FALSE
  /\ sortedTransactions' = <<>>
  /\ performanceData' = <<>>
  /\ currentStats' = ZeroStats
  /\ transactionBuffer' = <<>>
  /\ RunEffect(RefAfterClear(intervalRef),
               LiveAfterClear(intervalRef, liveIntervals),
               FALSE,
               isRunning \/ currentStats.radixTime # 0 \/ currentStats.mergeTime # 0)
  /\ UNCHANGED <<sortMethod, sortBy, transactionRate, preprocessedData,
                 nextId, ticks, passes, lastPassInput, configChanges>>
  /\ UNCHANGED harnessVars

\* onChange of the rate slider: setTransactionRate(Number(e.target.value))
setTransactionRate(rate) ==
  /\ rate # transactionRate
  /\ transactionRate' = rate
  /\ configChanges' = configChanges + 1
  /\ RunEffect(intervalRef, liveIntervals, isRunning, TRUE)
  /\ UNCHANGED <<isRunning, sortMethod, sortBy, transactionBuffer,
                 currentStats, performanceData, sortedTransactions,
                 preprocessedData, nextId, ticks, passes, lastPassInput>>
  /\ UNCHANGED harnessVars

\* onChange of the Sort By select: setSortBy(e.target.value)
setSortBy(key) ==
  /\ key # sortBy
  /\ sortBy' = key
  /\ configChanges' = configChanges + 1
  /\ RunEffect(intervalRef, liveIntervals, isRunning, TRUE)
  /\ UNCHANGED <<isRunning, sortMethod, transactionRate, transactionBuffer,
                 currentStats, performanceData, sortedTransactions,
                 preprocessedData, nextId, ticks, passes, lastPassInput>>
  /\ UNCHANGED harnessVars

\* onChange of the Sort Algorithm select: setSortMethod(e.target.value)
setSortMethod(method) ==
  /\ method # sortMethod
  /\ sortMethod' = method
  /\ configChanges' = configChanges + 1
  /\ RunEffect(intervalRef, liveIntervals, isRunning, TRUE)
  /\ UNCHANGED <<isRunning, sortBy, transactionRate, transactionBuffer,
                 currentStats, performanceData, sortedTransactions,
                 preprocessedData, nextId, ticks, passes, lastPassInput>>
  /\ UNCHANGED harnessVars

\* sortTransactions(data): the array it returns.
SortedBy(method, data, key) ==
  IF method = "radix" THEN RadixSorted(data, key) ELSE MergeSorted(data, key)

\* The PerformanceSample of lines 201-207.  radixTime and mergeTime are those
\* of the currentStats the interval callback closed over: the effect runs
\* again whenever they change, so they are the values of the last render.
NewSample(label, closedStats, bufferLength, newTotal) ==
  [time |-> label, radixTime |-> closedStats.radixTime,
   mergeTime |-> closedStats.mergeTime, transactions |-> bufferLength,
   totalTransactions |-> newTotal]

\* Mutant of AppendSample: the sample is appended twice.
AppendSampleTwice(prevData, sample) == SliceLast(prevData, 20) \o <<sample, sample>>

\* setPerformanceData(prevData => [...prevData.slice(-20), sample])
AppendSample(prevData, sample) == SliceLast(prevData, 20) \o <<sample>>

\* The flush branch of the interval callback (lines 186-212) and the render
\* that applies its queued updates, for the buffer `buffer` that has reached
\* the threshold, the array `sorted` that sortTransactions returned for it,
\* the `preprocessed` sample radixSort published and the two measured
\* durations.
Flush(buffer, sorted, preprocessed, radixElapsed, mergeElapsed) ==
  LET bufferLength == Len(buffer)
      radixTime == RadixTime(buffer, radixElapsed)
      mergeTime == MergeTime(buffer, mergeElapsed)
      newTotal == currentStats.totalTransactions + bufferLength
  IN  /\ sortedTransactions' = SliceLast(sorted, 500)
      /\ preprocessedData' = preprocessed
      /\ currentStats' =
           [totalTransactions |-> newTotal,
            avgSortTime |-> (currentStats.radixTime + currentStats.mergeTime) \div 2,
            radixTime |-> radixTime,
            mergeTime |-> mergeTime]
      /\ performanceData' =
           AppendSample(performanceData,
                        NewSample(ticks + 1, currentStats, bufferLength, newTotal))
      /\ transactionBuffer' = <<>>
      /\ lastPassInput' = buffer
      /\ passes' = passes + 1
      /\ RunEffect(intervalRef, liveIntervals, isRunning,
                   radixTime # currentStats.radixTime
                     \/ mergeTime # currentStats.mergeTime)

\* Mutant of NoFlush: the total grows by the length of the buffer, as in the
\* flush branch.
NoFlushCountsBuffer(buffer, batchSize) ==
  /\ transactionBuffer' = buffer
  /\ currentStats' = [currentStats EXCEPT
                        !.totalTransactions = @ + Len(buffer)]
  /\ UNCHANGED <<sortedTransactions, preprocessedData, performanceData,
                 lastPassInput, passes, intervalRef, liveIntervals>>

\* The else branch (lines 213-219): only the running total moves.
NoFlush(buffer, batchSize) ==
  /\ transactionBuffer' = buffer
  /\ currentStats' = [currentStats EXCEPT
                        !.totalTransactions = @ + batchSize]
  /\ UNCHANGED <<sortedTransactions, preprocessedData, performanceData,
                 lastPassInput, passes, intervalRef, liveIntervals>>

\* Mutant of TickWith: the threshold test is > in place of >=, so a buffer of
\* exactly the threshold is not flushed.
TickWithStrictThreshold(maxTicks, maxPasses, radixElapsedSet, mergeElapsedSet) ==
  /\ liveIntervals > 0
  /\ ticks < maxTicks
  /\ \E batchSize \in {transactionRate \div 10} :
       \E buffer \in {transactionBuffer \o NewTransactions(batchSize, nextId)} :
         /\ nextId' = nextId + batchSize
         /\ ticks' = ticks + 1
         /\ IF Len(buffer) > FlushThreshold
            THEN /\ passes < maxPasses
                 /\ \E sorted \in {SortedBy(sortMethod, buffer, sortBy)} :
                      \E preprocessed \in {RadixPreprocessedSample(buffer, sortBy)} :
                        \E radixElapsed \in radixElapsedSet :
                          \E mergeElapsed \in mergeElapsedSet :
                            Flush(buffer, sorted, preprocessed,
                                  radixElapsed, mergeElapsed)
            ELSE NoFlush(buffer, batchSize)
  /\ UNCHANGED <<isRunning, sortMethod, sortBy, transactionRate, configChanges>>
  /\ UNCHANGED harnessVars

\* One firing of the interval callback (lines 177-220), with the render it
\* causes.  The callback of the one registered interval closes over the
\* values of the last render, as the effect registers it anew at every change
\* of a value the callback reads.  (The one-element sets name a value that is
\* computed once: the batch size, the buffer after the append, the result of
\* the sort pass.)
TickWith(maxTicks, maxPasses, radixElapsedSet, mergeElapsedSet) ==
  /\ liveIntervals > 0
  /\ ticks < maxTicks
  /\ \E batchSize \in {transactionRate \div 10} :
       \E buffer \in {transactionBuffer \o NewTransactions(batchSize, nextId)} :
         /\ nextId' = nextId + batchSize
         /\ ticks' = ticks + 1
         /\ IF Len(buffer) >= FlushThreshold
            THEN /\ passes < maxPasses
                 /\ \E sorted \in {SortedBy(sortMethod, buffer, sortBy)} :
                      \E preprocessed \in {RadixPreprocessedSample(buffer, sortBy)} :
                        \E radixElapsed \in radixElapsedSet :
                          \E mergeElapsed \in mergeElapsedSet :
                            Flush(buffer, sorted, preprocessed,
                                  radixElapsed, mergeElapsed)
            ELSE NoFlush(buffer, batchSize)
  /\ UNCHANGED <<isRunning, sortMethod, sortBy, transactionRate, configChanges>>
  /\ UNCHANGED harnessVars

Tick == TickWith(MaxTicks, MaxPasses, Elapsed, Elapsed)

SetRate == \E rate \in Rates :
  configChanges < MaxConfigChanges /\ setTransactionRate(rate)

SetSortBy == \E key \in SortKeys :
  configChanges < MaxConfigChanges /\ setSortBy(key)

SetSortMethod == \E method \in SortMethods :
  configChanges < MaxConfigChanges /\ setSortMethod(method)

Init == SchedInit /\ HarnessIdle

Next ==
  \/ toggleSimulation
  \/ resetData
  \/ SetRate
  \/ SetSortBy
  \/ SetSortMethod
  \/ Tick

Spec == Init /\ [][Next]_vars

\* A long run at the rate that flushes at every tick, each sorter run
\* measured at one clock unit.
LongTick == TickWith(MaxLongTicks, MaxLongTicks, {4}, {4})

LongSetRate == setTransactionRate(5000)

LongNext ==
  \/ toggleSimulation
  \/ LongSetRate
  \/ LongTick

LongSpec == Init /\ [][LongNext]_vars

\* ------------------------------------------------- properties of the sorters

IdsOf(seq) == [i \in 1..Len(seq) |-> seq[i].id]

\* a <= b in lexicographic string order, stated without the code's loop: a is
\* a prefix of b, or the two differ first at a position where a is smaller.
LexLeq(a, b) ==
  \E k \in 0..Len(a) :
    /\ k <= Len(b)
    /\ \A m \in 1..k : a[m] = b[m]
    /\ \/ k = Len(a)
       \/ k < Len(b) /\ a[k + 1] < b[k + 1]

\* x precedes-or-equals y in the ordering of the field itself.
FieldOrdered(x, y, key) ==
  IF key = "price" THEN x.price <= y.price
  ELSE IF key = "symbol" THEN LexLeq(x.symbol, y.symbol)
  ELSE x.timestamp <= y.timestamp

NonDecreasing(seq, key) ==
  \A i \in 1..(Len(seq) - 1) : FieldOrdered(seq[i], seq[i + 1], key)

\* The same transactions: equal lengths, and every id as often in one as in
\* the other.
SameTransactions(a, b) ==
  /\ Len(a) = Len(b)
  /\ \A x \in {a[i].id : i \in 1..Len(a)} \cup {b[i].id : i \in 1..Len(b)} :
       Cardinality({i \in 1..Len(a) : a[i].id = x})
         = Cardinality({i \in 1..Len(b) : b[i].id = x})

PositionOf(seq, id) == CHOOSE i \in 1..Len(seq) : seq[i].id = id

HarnessSorted == hPhase \in {"sorted", "resorted"}

\* C1: the sequence radixSort returns is non-decreasing in the ordering of the
\* chosen field itself (numeric for price and timestamp, lexicographic for
\* symbol), batches mixing symbols of different lengths included.
C1_RadixNonDecreasing ==
  (HarnessSorted /\ hAlg = "radix") => NonDecreasing(hOut, hKey)

\* C2: the sequence mergeSort returns is non-decreasing in the ordering of the
\* chosen field.
C2_MergeNonDecreasing ==
  (HarnessSorted /\ hAlg = "merge") => NonDecreasing(hOut, hKey)

\* mergeSort has sorted by symbol a batch of three that was in decreasing
\* order and mixes symbol lengths.
C2_Witness ==
  /\ hPhase = "sorted" /\ hAlg = "merge" /\ hKey = "symbol"
  /\ Len(hArr) = 3
  /\ ~FieldOrdered(hArr[1], hArr[2], "symbol")
  /\ ~FieldOrdered(hArr[2], hArr[3], "symbol")
  /\ Len(hArr[1].symbol) # Len(hArr[3].symbol)
  /\ IdsOf(hOut) = <<3, 2, 1>>

\* C3: the output of either sorter is a permutation of its input: the same
\* length and the same multiset of ids (also when it is sorted once more).
C3_Permutation ==
  /\ HarnessSorted => SameTransactions(hOut, hArr)
  /\ hPhase = "resorted" => SameTransactions(hAgain, hArr)

\* radixSort has reordered a batch of three through its digit passes.
C3_Witness ==
  /\ hPhase = "sorted" /\ hAlg = "radix"
  /\ Len(hArr) = 3
  /\ IdsOf(hOut) = <<3, 1, 2>>

\* Two transactions the sorter must keep in input order: equal encoded keys
\* for radixSort, equal values of the chosen field for mergeSort.
TiedFor(alg, x, y, key) ==
  IF alg = "radix" THEN EncodeKey(x, key) = EncodeKey(y, key)
  ELSE IF key = "price" THEN x.price = y.price
  ELSE IF key = "symbol" THEN x.symbol = y.symbol
  ELSE x.timestamp = y.timestamp

PricesOf(seq) == [i \in 1..Len(seq) |-> seq[i].price]

\* C4: both sorters are stable: of two tied transactions the one first in the
\* input is first in the output; and radixSort by price on the prices
\* [100.00, 50.00, 100.00] returns [50.00, 100.00, 100.00] with the two
\* 100.00 in their input order.
C4_Stable ==
  HarnessSorted =>
    /\ \A i, j \in 1..Len(hArr) :
         (i < j /\ TiedFor(hAlg, hArr[i], hArr[j], hKey)) =>
           PositionOf(hOut, hArr[i].id) < PositionOf(hOut, hArr[j].id)
    /\ (hAlg = "radix" /\ hKey = "price" /\ PricesOf(hArr) = <<10000, 5000, 10000>>) =>
         (PricesOf(hOut) = <<5000, 10000, 10000>> /\ IdsOf(hOut) = <<2, 1, 3>>)

\* radixSort has sorted the batch [100.00, 50.00, 100.00] by price.
C4_Witness ==
  /\ hPhase = "sorted" /\ hAlg = "radix" /\ hKey = "price"
  /\ PricesOf(hArr) = <<10000, 5000, 10000>>
  /\ IdsOf(hOut) = <<2, 1, 3>>

\* C5: sorting a sorter's output again, same sorter and same field, returns
\* the same transactions in the same positions.
C5_Idempotent ==
  hPhase = "resorted" => IdsOf(hAgain) = IdsOf(hOut)

\* A sorter has been run on its own output, for a batch it had to reorder and
\* that holds a tie.
C5_Witness ==
  /\ hPhase = "resorted"
  /\ Len(hArr) = 3
  /\ IdsOf(hOut) # IdsOf(hArr)
  /\ \E i, j \in 1..3 : i < j /\ TiedFor(hAlg, hArr[i], hArr[j], hKey)
  /\ IdsOf(hAgain) = IdsOf(hOut)

\* A key is a decimal numeral of a non-negative integer.
IsNatKey(key) ==
  /\ Len(key) >= 1
  /\ \A i \in 1..Len(key) : key[i] \in 0..9
  /\ (Len(key) > 1 => key[Len(key)] # 0)

\* C6: on the ten ticker symbols the symbol key is never negative and is
\* injective, and for symbols of equal length the order of the keys is the
\* lexicographic order of the symbols (AAPL before AAPM).
C6_SymbolKeys ==
  (HarnessSorted /\ hAlg = "radix" /\ hKey = "symbol" /\ Len(hArr) > 1) =>
    /\ \A i \in 1..Len(hOut) : IsNatKey(hOut[i].sortKey)
    /\ \A i, j \in 1..Len(hOut) :
         /\ hOut[i].sortKey = hOut[j].sortKey => hOut[i].symbol = hOut[j].symbol
         /\ Len(hOut[i].symbol) = Len(hOut[j].symbol) =>
              (DigitsLess(hOut[i].sortKey, hOut[j].sortKey)
                 <=> ~LexLeq(hOut[j].symbol, hOut[i].symbol))
    /\ DigitsLess(EncodeKey([symbol |-> <<65, 65, 80, 76>>], "symbol"),
                  EncodeKey([symbol |-> <<65, 65, 80, 77>>], "symbol"))

\* radixSort has encoded three different symbols, two of them of equal length
\* and one longer.
C6_Witness ==
  /\ hPhase = "sorted" /\ hAlg = "radix" /\ hKey = "symbol"
  /\ Len(hOut) = 3
  /\ hOut[1].symbol # hOut[2].symbol
  /\ Len(hOut[1].symbol) = Len(hOut[2].symbol)
  /\ Len(hOut[3].symbol) = 5
  /\ DigitsLess(hOut[1].sortKey, hOut[2].sortKey)

\* C11: for a batch of length 0 or 1 both sorters return the batch unchanged
\* and report a duration of exactly 0, whatever the clock measured around the
\* call.
C11_ShortInputZeroDuration ==
  (HarnessSorted /\ Len(hArr) <= 1) => (hOut = hArr /\ hTime = 0)

\* C15: the duration a sorter returns is the elapsed time the clock measured
\* around its run, with no factor applied (radixSort measures nothing for a
\* batch of length 0 or 1, where it returns 0).
C15_TrueMeasuredDuration ==
  HarnessSorted =>
    /\ hAlg = "merge" => hTime = hElapsed
    /\ (hAlg = "radix" /\ Len(hArr) > 1) => hTime = hElapsed

\* ---------------------------------------------- properties of the scheduler

\* A step is a tick; the buffer the tick tests is the old one and the batch.
TickStep == ticks' = ticks + 1

BatchSize == transactionRate \div 10

LengthAfterAppend == Len(transactionBuffer) + BatchSize

\* C7: a tick whose buffer stays below the flush threshold runs no sort pass:
\* the two last durations, the average, the history and the last sorted output
\* are unchanged, and totalTransactions grows by exactly
\* batchSize = floor(rate / 10).
C7_BelowThresholdTick ==
  [][(TickStep /\ LengthAfterAppend < FlushThreshold) =>
       /\ passes' = passes
       /\ currentStats'.radixTime = currentStats.radixTime
       /\ currentStats'.mergeTime = currentStats.mergeTime
       /\ currentStats'.avgSortTime = currentStats.avgSortTime
       /\ performanceData' = performanceData
       /\ sortedTransactions' = sortedTransactions
       /\ currentStats'.totalTransactions = currentStats.totalTransactions + BatchSize
       /\ Len(transactionBuffer') = LengthAfterAppend]_vars

\* A tick below the threshold has run after a sort pass: the buffer is filling
\* again while the statistics of the pass are in place.
C7_Witness ==
  /\ passes >= 1
  /\ Len(transactionBuffer) > 0
  /\ currentStats.radixTime > 0
  /\ Len(performanceData) = 1
  /\ Len(sortedTransactions) = 500
  /\ currentStats.totalTransactions > performanceData[1].totalTransactions

IdSet(seq) == {seq[i].id : i \in 1..Len(seq)}

\* C8: the tick at which the buffer reaches the flush threshold runs exactly
\* one sort pass on the whole buffer, the transactions appended in that tick
\* included, appends exactly one PerformanceSample and leaves the buffer
\* empty.
C8_FlushTick ==
  [][(TickStep /\ LengthAfterAppend >= FlushThreshold) =>
       /\ passes' = passes + 1
       /\ IdsOf(lastPassInput') =
            IdsOf(transactionBuffer) \o [k \in 1..BatchSize |-> nextId + k - 1]
       /\ IdSet(sortedTransactions') \subseteq IdSet(lastPassInput')
       /\ Len(sortedTransactions') =
            (IF LengthAfterAppend < 500 THEN LengthAfterAppend ELSE 500)
       /\ (LengthAfterAppend = 500 =>
             SameTransactions(sortedTransactions', lastPassInput'))
       /\ \E sample \in {performanceData'[Len(performanceData')]} :
            /\ performanceData' = SliceLast(performanceData, 20) \o <<sample>>
            /\ sample.transactions = LengthAfterAppend
       /\ transactionBuffer' = <<>>]_vars

\* A pass has run on a buffer of 650: 400 transactions of earlier ticks and
\* the 250 of the tick that reached the threshold.
C8_Witness ==
  /\ passes = 1
  /\ Len(lastPassInput) = 650
  /\ transactionBuffer = <<>>
  /\ Len(performanceData) = 1
  /\ performanceData[1].transactions = 650
  /\ Len(sortedTransactions) = 500

\* What reset() is to leave: the scheduler idle with no interval registered,
\* the counters and durations zero, history and buffer empty.
ResetState ==
  /\ ~isRunning
  /\ liveIntervals = 0
  /\ currentStats.totalTransactions = 0
  /\ currentStats.radixTime = 0
  /\ currentStats.mergeTime = 0
  /\ currentStats.avgSortTime = 0
  /\ performanceData = <<>>
  /\ transactionBuffer = <<>>

\* C9: reset, in either state and after any run, leaves the scheduler idle,
\* the total and the durations zero, history and buffer empty; and from there
\* nothing of it changes before a start command.
C9_ResetComplete ==
  [][/\ resetData => ResetState'
     /\ ResetState => (ResetState' \/ isRunning')]_vars

\* reset has been issued after sort passes had run, with an interval
\* registered at some time before.
C9_Witness ==
  /\ passes >= 1
  /\ intervalRef = "cleared"
  /\ ResetState

\* C10: the performance history never holds more than 20 samples.
C10_HistoryBounded == Len(performanceData) <= 20

\* A step is a tick that ran a sort pass.
PassStep == TickStep /\ passes' = passes + 1

\* The sample the pass of this step appended.
LastSample(data) == data[Len(data)]

\* C12: the scheduler is Idle or Running; start moves Idle to Running, stop
\* and reset move to Idle, nothing else changes the state; a tick runs only
\* while Running, and between a stop or reset and the next start no
\* transaction is generated and buffer and totalTransactions do not change
\* (but by a reset, which empties them).
C12_TwoStateScheduler ==
  [][/\ toggleSimulation => isRunning' = ~isRunning
     /\ resetData => ~isRunning'
     /\ isRunning' # isRunning => (toggleSimulation \/ resetData)
     /\ TickStep => isRunning
     /\ (~isRunning /\ ~isRunning') =>
          /\ nextId' = nextId
          /\ ticks' = ticks
          /\ \/ resetData
             \/ /\ transactionBuffer' = transactionBuffer
                /\ currentStats'.totalTransactions = currentStats.totalTransactions]_vars

\* A stop has been handled after ticks had run: the scheduler is idle, its
\* interval cleared, with a partly filled buffer.
C12_Witness ==
  /\ ~isRunning
  /\ intervalRef = "cleared"
  /\ liveIntervals = 0
  /\ Len(transactionBuffer) > 0
  /\ currentStats.totalTransactions > 0

\* C13: the sample a sort pass appends holds the two durations measured in
\* that pass (those the pass stores in the statistics), the length of the
\* batch it sorted and the total right after the pass was counted.
C13_SampleOfSamePass ==
  [][PassStep =>
       /\ LastSample(performanceData').radixTime = currentStats'.radixTime
       /\ LastSample(performanceData').mergeTime = currentStats'.mergeTime
       /\ LastSample(performanceData').transactions = Len(lastPassInput')
       /\ LastSample(performanceData').totalTransactions
            = currentStats'.totalTransactions]_vars

\* C14: once a pass has completed (the history holds a sample; a reset
\* empties it), the average is the mean of the two durations the statistics
\* hold.
C14_AverageOfLatest ==
  Len(performanceData) >= 1 =>
    2 * currentStats.avgSortTime = currentStats.radixTime + currentStats.mergeTime

\* C16: reset leaves every observable at its initial value: the statistics
\* zero, the history, the last sorted output and the last encoded-key sample
\* empty.
C16_ResetClearsObservables ==
  [][resetData =>
       /\ currentStats' = ZeroStats
       /\ performanceData' = <<>>
       /\ sortedTransactions' = <<>>
       /\ preprocessedData' = <<>>]_vars

\* C17: every generated transaction is counted once: a tick adds to
\* totalTransactions the number of transactions it generated, the sample of a
\* pass holds the total so counted, and only a reset (to zero) changes the
\* total otherwise.
C17_CountedOnce ==
  [][/\ TickStep =>
          currentStats'.totalTransactions
            = currentStats.totalTransactions + (nextId' - nextId)
     /\ PassStep =>
          LastSample(performanceData').totalTransactions
            = currentStats.totalTransactions + (nextId' - nextId)
     /\ ~TickStep =>
          \/ currentStats'.totalTransactions = currentStats.totalTransactions
          \/ resetData /\ currentStats'.totalTransactions = 0]_vars

\* C18: at most one interval is registered, and one is registered exactly
\* when the scheduler is running; the ref then holds it.
C18_OneTimer ==
  /\ liveIntervals \in {0, 1}
  /\ liveIntervals = 1 <=> isRunning
  /\ intervalRef = "live" <=> isRunning

\* The scheduler runs with its one interval after a configuration command
\* and a sort pass (whose new durations ran the effect again).
C18_Witness ==
  /\ isRunning
  /\ liveIntervals = 1
  /\ configChanges >= 1
  /\ passes >= 1
  /\ currentStats.radixTime # 0
  /\ Len(transactionBuffer) > 0

\* C19: between ticks the buffer is below the flush threshold, and the batch
\* of a sort pass has at least threshold and fewer than threshold + batchSize
\* transactions, batchSize that of the rate at the tick.
C19_BufferBelowThreshold ==
  [][/\ Len(transactionBuffer) < FlushThreshold
     /\ Len(transactionBuffer') < FlushThreshold
     /\ PassStep =>
          /\ Len(lastPassInput') >= FlushThreshold
          /\ Len(lastPassInput') < FlushThreshold + BatchSize]_vars

\* A pass has sorted more than the threshold after a rate change, the buffer
\* has been filling again, and the scheduler has been stopped.
C19_Witness ==
  /\ ~isRunning
  /\ configChanges = 1
  /\ passes = 1
  /\ Len(lastPassInput) = 600
  /\ Len(transactionBuffer) = 250

====
